---- MODULE Spec2Model ----
(***************************************************************************)
(* The four OGL sample scripts of the repository as one state machine:     *)
(*   "indexed"    src/unnamed/part_000  (Indexed vs Non-Indexed)           *)
(*   "sort"       src/unnamed/part_001  (Sort Transparency)                *)
(*   "instancing" src/unnamed/part_002  (Instancing)                       *)
(*   "lighting"   src/examples/point-lighting/index.ts                     *)
(* A sample is a top-level script (the task "setup") followed by event     *)
(* handlers the host runs one at a time: the frame callback update, the    *)
(* resize listener, image onload handlers, the continuations of the async  *)
(* function loadModel and the mousemove listener.                          *)
(*                                                                         *)
(* Units.  Floating-point quantities are kept as exact integers in a       *)
(* fixed unit: rotations of the instancing/lighting mesh and of the scene  *)
(* in 0.001 rad, uTime in 0.001 s, u_dt in 0.00001, the light position in  *)
(* halves.  Math.random() yields k / RandomSteps for k in                  *)
(* 0 .. RandomSteps-1; values derived from it are scaled by RandomSteps.   *)
(* A quotient w / h is an IEEE value: a reduced fraction <<n, d>>, with    *)
(* <<1, 0>> for Infinity and <<0, 0>> for NaN.                             *)
(***************************************************************************)
EXTENDS Integers, Sequences, FiniteSets, TLC

VARIABLES
    sample,         \* which sample script is running
    cur,            \* the task on the JavaScript stack: "setup", "update", "idle"
    pc,             \* position inside the running task
    innerWidth,     \* window.innerWidth
    innerHeight,    \* window.innerHeight
    canvasW,        \* gl.canvas.width
    canvasH,        \* gl.canvas.height
    aspect,         \* camera.aspect
    resizeListener, \* window has the resize listener
    pending,        \* frame callbacks registered and not yet run
    frames,         \* invocations of update so far
    renders,        \* calls of renderer.render so far
    tArg,           \* argument of the running update
    uTime,          \* program.uniforms.uTime.value (u_dt.value in "lighting")
    sceneRotY,      \* scene.rotation.y ("sort")
    meshes,         \* the array meshes ("sort")
    mesh,           \* the variable mesh ("instancing", "lighting")
    loadState,      \* where loadModel is: "init", "fetching", "parsing", "done", "failed"
    fetches,        \* calls of fetch so far
    imgState,       \* per image: "none", "loading", "loaded"
    texImage,       \* per texture: its image has been assigned
    light,          \* program.uniforms.u_lightWorldPosition.value
    thrown,         \* an exception escaped a handler
    loadPhase,      \* per asset, when its load handler ran (history)
    drawn           \* assets the latest render request could draw (history)

vars == <<sample, cur, pc, innerWidth, innerHeight, canvasW, canvasH, aspect,
          resizeListener, pending, frames, renders, tArg, uTime, sceneRotY,
          meshes, mesh, loadState, fetches, imgState, texImage, light, thrown,
          loadPhase, drawn>>

\* ---------------------------------------------------------------- bounds

\* Viewport widths and heights are 0 .. MaxDim.
MaxDim == 2
\* The host delivers at most MaxFrames frames.
MaxFrames == 2
\* Frame timestamps are 0 .. MaxTime.
MaxTime == 1
\* The number of meshes "sort" creates (50 in the script).
MeshCount == 1
\* Math.random() yields a multiple of 1 / RandomSteps.
RandomSteps == 2

Sizes == 0 .. MaxDim
Times == 0 .. MaxTime
Random == 0 .. (RandomSteps - 1)
\* The least and the greatest draw: the draws taken for the fields that no
\* statement of a sample compares or branches on (rotation, speed).
RandomEnds == {0, RandomSteps - 1}

\* ------------------------------------------------------------- constants

Samples == {"indexed", "sort", "instancing", "lighting"}

Assets == {"texture", "model", "colMap", "specMap", "cloudMap"}

\* The textures a sample creates and loads an image for.
Textures(s) ==
    CASE s = "sort" -> {"texture"}
      [] s = "instancing" -> {"texture"}
      [] s = "lighting" -> {"colMap", "specMap", "cloudMap"}
      [] OTHER -> {}

\* new Renderer({dpr: 2}) in "sort" and "instancing", new Renderer() elsewhere.
Dpr(s) == IF s \in {"sort", "instancing"} THEN 2 ELSE 1

NoAspect == <<-1, -1>>

NoMesh == [defined |-> FALSE, rotY |-> 0, parent |-> "none"]

\* ----------------------------------------------------------- arithmetic

RECURSIVE Gcd(_, _)
Gcd(a, b) == IF b = 0 THEN a ELSE Gcd(b, a % b)

\* The value of the JavaScript expression w / h for integers w, h >= 0.
Div(w, h) ==
    IF h = 0 THEN (IF w = 0 THEN <<0, 0>> ELSE <<1, 0>>)
    ELSE <<w \div Gcd(w, h), h \div Gcd(w, h)>>

\* ------------------------------------------------------------------ Init

\* The state when a script reaches its resize listener: renderer and camera
\* exist, nothing is registered or loading.  The buffer size and the camera
\* aspect the library starts with are overwritten by resize() before any
\* statement of a sample reads them: 0 x 0 and NoAspect stand for them.
Init ==
    /\ sample \in Samples
    /\ cur = "setup"
    /\ pc = "resize"
    /\ innerWidth \in Sizes
    /\ innerHeight \in Sizes
    /\ canvasW = 0
    /\ canvasH = 0
    /\ aspect = NoAspect
    /\ resizeListener = FALSE
    /\ pending = 0
    /\ frames = 0
    /\ renders = 0
    /\ tArg = 0
    /\ uTime = 0
    /\ sceneRotY = 0
    /\ meshes = <<>>
    /\ mesh = NoMesh
    /\ loadState = "init"
    /\ fetches = 0
    /\ imgState = [a \in Assets |-> "none"]
    /\ texImage = [a \in Assets |-> FALSE]
    /\ light = <<0, 0, 0>>
    /\ thrown = FALSE
    /\ loadPhase = [a \in Assets |-> "no"]
    /\ drawn = {}

\* ---------------------------------------------------------------- resize

\* renderer.setSize(width, height): the drawing buffer is the given size
\* scaled by the renderer's device pixel ratio.
setSize(width, height) == <<width * Dpr(sample), height * Dpr(sample)>>

\* camera.perspective({aspect}): the camera keeps the aspect it is given.
perspective(a) == a

\* resize with the quotient taken the wrong way round: height over width.
resizeTransposed ==
    /\ canvasW' = setSize(innerWidth', innerHeight')[1]
    /\ canvasH' = setSize(innerWidth', innerHeight')[2]
    /\ aspect' = perspective(Div(canvasH', canvasW'))

\* resize with its two statements in the other order: the aspect is taken
\* from the buffer before setSize changes it.
resizeStale ==
    /\ aspect' = perspective(Div(canvasW, canvasH))
    /\ canvasW' = setSize(innerWidth', innerHeight')[1]
    /\ canvasH' = setSize(innerWidth', innerHeight')[2]

\* function resize(): reads the window size as it is when the handler runs.
resize ==
    /\ canvasW' = setSize(innerWidth', innerHeight')[1]
    /\ canvasH' = setSize(innerWidth', innerHeight')[2]
    /\ aspect' = perspective(Div(canvasW', canvasH'))

\* ----------------------------------------------------------------- setup

\* The setup without its own call of resize(): the listener alone.
setupResizeListenOnly ==
    /\ cur = "setup" /\ pc = "resize"
    /\ resizeListener' = TRUE
    /\ pc' = "scene"
    /\ UNCHANGED <<sample, cur, innerWidth, innerHeight, canvasW, canvasH, aspect,
                   pending, frames, renders, tArg, uTime, sceneRotY, meshes, mesh,
                   loadState, fetches, imgState, texImage, light, thrown,
                   loadPhase, drawn>>

\* window.addEventListener("resize", resize, false); resize();
setupResize ==
    /\ cur = "setup" /\ pc = "resize"
    /\ resizeListener' = TRUE
    /\ UNCHANGED <<innerWidth, innerHeight>>
    /\ resize
    /\ pc' = "scene"
    /\ UNCHANGED <<sample, cur, pending, frames, renders, tArg, uTime, sceneRotY,
                   meshes, mesh, loadState, fetches, imgState, texImage, light,
                   thrown, loadPhase, drawn>>

\* img.src = "...": the image starts loading.
startImages(s) == [a \in Assets |-> IF a \in Textures(s) THEN "loading" ELSE "none"]

\* One iteration of the mesh-creating loop of "sort", for the four draws of
\* Math.random() (ky, kry, krz, ks) that reach the modelled fields:
\*   position.y = (r - 0.5) * 6          kept scaled by RandomSteps
\*   rotation.y = (r - 0.5) * 6.28       kept in 0.01 rad scaled by RandomSteps
\*   speed      = r * 1.5 + 0.2          kept in 0.1 scaled by RandomSteps
newMesh(ky, kry, krz, ks) ==
    [posY  |-> 6 * ky - 3 * RandomSteps,
     rotY  |-> 628 * kry - 314 * RandomSteps,
     rotZ  |-> 628 * krz - 314 * RandomSteps,
     speed |-> 15 * ks + 2 * RandomSteps,
     parent |-> "scene"]

MeshValues == {newMesh(ky, kry, krz, ks) : ky \in Random, kry \in RandomEnds,
                                            krz \in RandomEnds, ks \in RandomEnds}

\* async function loadModel(), up to its first await: the fetch is issued.
loadModel ==
    /\ fetches' = fetches + 1
    /\ loadState' = "fetching"

\* "indexed": two meshes are built and attached; no asset is loaded.
setupIndexed ==
    /\ cur = "setup" /\ pc = "scene" /\ sample = "indexed"
    /\ pc' = "raf"
    /\ UNCHANGED <<sample, cur, innerWidth, innerHeight, canvasW, canvasH, aspect,
                   resizeListener, pending, frames, renders, tArg, uTime,
                   sceneRotY, meshes, mesh, loadState, fetches, imgState,
                   texImage, light, thrown, loadPhase, drawn>>

\* "sort": the texture's image starts loading and the meshes are created.
setupSort ==
    /\ cur = "setup" /\ pc = "scene" /\ sample = "sort"
    /\ imgState' = startImages(sample)
    /\ meshes' \in [1 .. MeshCount -> MeshValues]
    /\ pc' = "raf"
    /\ UNCHANGED <<sample, cur, innerWidth, innerHeight, canvasW, canvasH, aspect,
                   resizeListener, pending, frames, renders, tArg, uTime,
                   sceneRotY, mesh, loadState, fetches, texImage, light, thrown,
                   loadPhase, drawn>>

\* "instancing": the texture's image starts loading; let mesh; loadModel();
setupInstancing ==
    /\ cur = "setup" /\ pc = "scene" /\ sample = "instancing"
    /\ imgState' = startImages(sample)
    /\ mesh' = NoMesh
    /\ loadModel
    /\ pc' = "raf"
    /\ UNCHANGED <<sample, cur, innerWidth, innerHeight, canvasW, canvasH, aspect,
                   resizeListener, pending, frames, renders, tArg, uTime,
                   sceneRotY, meshes, texImage, light, thrown, loadPhase, drawn>>

\* "lighting": the light, three textures whose images start loading, the mesh
\* attached to the scene and the mousemove listener.
setupLighting ==
    /\ cur = "setup" /\ pc = "scene" /\ sample = "lighting"
    /\ light' = <<2 * 20, 2 * 30, 2 * 60>>
    /\ imgState' = startImages(sample)
    /\ mesh' = [defined |-> TRUE, rotY |-> 0, parent |-> "scene"]
    /\ pc' = "raf"
    /\ UNCHANGED <<sample, cur, innerWidth, innerHeight, canvasW, canvasH, aspect,
                   resizeListener, pending, frames, renders, tArg, uTime,
                   sceneRotY, meshes, loadState, fetches, texImage, thrown,
                   loadPhase, drawn>>

\* requestAnimationFrame(update): one more frame callback is pending.
requestAnimationFrame(n) == n + 1

\* requestAnimationFrame(update); and the end of the script.
setupRaf ==
    /\ cur = "setup" /\ pc = "raf"
    /\ pending' = requestAnimationFrame(pending)
    /\ cur' = "idle"
    /\ pc' = "none"
    /\ UNCHANGED <<sample, innerWidth, innerHeight, canvasW, canvasH, aspect,
                   resizeListener, frames, renders, tArg, uTime, sceneRotY,
                   meshes, mesh, loadState, fetches, imgState, texImage, light,
                   thrown, loadPhase, drawn>>

\* ---------------------------------------------------------- frame callback

\* The host runs one pending frame callback: update(t).
frameBegin ==
    /\ cur = "idle" /\ pending > 0 /\ frames < MaxFrames
    /\ \E t \in Times : tArg' = t
    /\ pending' = pending - 1
    /\ frames' = frames + 1
    /\ cur' = "update"
    /\ pc' = "raf"
    /\ UNCHANGED <<sample, innerWidth, innerHeight, canvasW, canvasH, aspect,
                   resizeListener, renders, uTime, sceneRotY, meshes, mesh,
                   loadState, fetches, imgState, texImage, light, thrown,
                   loadPhase, drawn>>

\* update without its first statement: no successor is registered.
updateRafMissing ==
    /\ cur = "update" /\ pc = "raf"
    /\ pc' = "state"
    /\ UNCHANGED <<sample, cur, innerWidth, innerHeight, canvasW, canvasH, aspect,
                   resizeListener, pending, frames, renders, tArg, uTime,
                   sceneRotY, meshes, mesh, loadState, fetches, imgState,
                   texImage, light, thrown, loadPhase, drawn>>

\* update, first statement: requestAnimationFrame(update);
updateRaf ==
    /\ cur = "update" /\ pc = "raf"
    /\ pending' = requestAnimationFrame(pending)
    /\ pc' = "state"
    /\ UNCHANGED <<sample, cur, innerWidth, innerHeight, canvasW, canvasH, aspect,
                   resizeListener, frames, renders, tArg, uTime, sceneRotY,
                   meshes, mesh, loadState, fetches, imgState, texImage, light,
                   thrown, loadPhase, drawn>>

\* The forEach body with a fall by the mesh's speed before the wrap test.
spinMeshFalling(m) ==
    [m EXCEPT !.rotY = @ + 5 * RandomSteps,
              !.rotZ = @ + 5 * RandomSteps,
              !.posY = IF @ - m.speed < -3 * RandomSteps
                       THEN @ - m.speed + 6 * RandomSteps ELSE @ - m.speed]

\* "sort", the body of meshes.forEach.
spinMesh(m) ==
    [m EXCEPT !.rotY = @ + 5 * RandomSteps,
              !.rotZ = @ + 5 * RandomSteps,
              !.posY = IF @ < -3 * RandomSteps THEN @ + 6 * RandomSteps ELSE @]

\* The statement without its guard: mesh.rotation.y -= 5e-3;
turnMeshUnguarded(m) ==
    IF m.defined
    THEN [mesh |-> [m EXCEPT !.rotY = @ - 5], throws |-> FALSE]
    ELSE [mesh |-> m, throws |-> TRUE]

\* "instancing": if (mesh) mesh.rotation.y -= 5e-3;  Reading rotation of an
\* undefined mesh would throw a TypeError.
turnMesh(m) ==
    IF m.defined
    THEN [mesh |-> [m EXCEPT !.rotY = @ - 5], throws |-> FALSE]
    ELSE [mesh |-> m, throws |-> FALSE]

\* "lighting": mesh.rotation.y += 0.005;  (controls.update(), the next
\* statement, moves the camera's position alone, which is not modelled.)
turnEarth(m) ==
    IF m.defined
    THEN [mesh |-> [m EXCEPT !.rotY = @ + 5], throws |-> FALSE]
    ELSE [mesh |-> m, throws |-> TRUE]

\* What the statements of update between its first and its last do to
\* <<meshes, sceneRotY, mesh, uTime>>, and whether one of them throws.
animate(s) ==
    CASE s = "indexed" ->
           [meshes |-> meshes, sceneRotY |-> sceneRotY, mesh |-> mesh,
            uTime |-> tArg, throws |-> FALSE]
      [] s = "sort" ->
           [meshes |-> [i \in DOMAIN meshes |-> spinMesh(meshes[i])],
            sceneRotY |-> sceneRotY + 15, mesh |-> mesh,
            uTime |-> uTime, throws |-> FALSE]
      [] s = "instancing" ->
           [meshes |-> meshes, sceneRotY |-> sceneRotY,
            mesh |-> turnMesh(mesh).mesh,
            uTime |-> IF turnMesh(mesh).throws THEN uTime ELSE tArg,
            throws |-> turnMesh(mesh).throws]
      [] s = "lighting" ->
           [meshes |-> meshes, sceneRotY |-> sceneRotY,
            mesh |-> turnEarth(mesh).mesh,
            uTime |-> IF turnEarth(mesh).throws THEN uTime ELSE -2 * tArg,
            throws |-> turnEarth(mesh).throws]

\* An await between the statements: the stack goes back to the host.
suspend(task) == "idle"

\* update is a plain function, not an async one: between two of its
\* statements the stack stays with the task that runs it.
hold(task) == task

\* update, the statements between requestAnimationFrame and renderer.render.
\* An exception ends the invocation before its render request.
updateState ==
    /\ cur = "update" /\ pc = "state"
    /\ meshes' = animate(sample).meshes
    /\ sceneRotY' = animate(sample).sceneRotY
    /\ mesh' = animate(sample).mesh
    /\ uTime' = animate(sample).uTime
    /\ thrown' = (thrown \/ animate(sample).throws)
    /\ IF animate(sample).throws
       THEN cur' = "idle" /\ pc' = "none" /\ tArg' = 0
       ELSE cur' = hold(cur) /\ pc' = "render" /\ tArg' = tArg
    /\ UNCHANGED <<sample, innerWidth, innerHeight, canvasW, canvasH, aspect,
                   resizeListener, pending, frames, renders, loadState, fetches,
                   imgState, texImage, light, loadPhase, drawn>>

\* The assets a render request issued now can draw: the textures that have
\* their image and, in "instancing", the model's mesh once it is in the scene.
Visible ==
    {a \in Textures(sample) : texImage[a]}
        \cup (IF sample = "instancing" /\ mesh.defined /\ mesh.parent = "scene"
              THEN {"model"} ELSE {})

\* The render request moved under the guard if (mesh).
updateRenderIfMesh ==
    /\ cur = "update" /\ pc = "render"
    /\ renders' = IF sample = "instancing" /\ ~mesh.defined
                  THEN renders ELSE renders + 1
    /\ drawn' = Visible
    /\ loadPhase' = [a \in Assets |->
                        IF loadPhase[a] = "fresh" THEN "old" ELSE loadPhase[a]]
    /\ cur' = "idle"
    /\ pc' = "none"
    /\ tArg' = 0
    /\ UNCHANGED <<sample, innerWidth, innerHeight, canvasW, canvasH, aspect,
                   resizeListener, pending, frames, uTime, sceneRotY, meshes,
                   mesh, loadState, fetches, imgState, texImage, light, thrown>>

\* update, last statement: renderer.render({scene, camera});
updateRender ==
    /\ cur = "update" /\ pc = "render"
    /\ renders' = renders + 1
    /\ drawn' = Visible
    /\ loadPhase' = [a \in Assets |->
                        IF loadPhase[a] = "fresh" THEN "old" ELSE loadPhase[a]]
    /\ cur' = "idle"
    /\ pc' = "none"
    /\ tArg' = 0
    /\ UNCHANGED <<sample, innerWidth, innerHeight, canvasW, canvasH, aspect,
                   resizeListener, pending, frames, uTime, sceneRotY, meshes,
                   mesh, loadState, fetches, imgState, texImage, light, thrown>>

\* function update(t)
update == updateRaf \/ updateState \/ updateRender

\* ---------------------------------------------------------- resize event

\* The viewport takes a size (the size it had is one of them) and the host
\* runs the resize listener.
windowResize ==
    /\ cur = "idle" /\ resizeListener
    /\ \E w \in Sizes, h \in Sizes : innerWidth' = w /\ innerHeight' = h
    /\ resize
    /\ UNCHANGED <<sample, cur, pc, resizeListener, pending, frames, renders,
                   tArg, uTime, sceneRotY, meshes, mesh, loadState, fetches,
                   imgState, texImage, light, thrown, loadPhase, drawn>>

\* ------------------------------------------------------------ asset loads

\* The history of an asset whose load handler runs now: before any frame
\* callback has run, or after.
Phase == IF frames = 0 THEN "early" ELSE "fresh"

\* A handler that assigns to no texture the program uses.
assignNothing(tex, a) == tex

\* img.onload = () => texture.image = img  (the texture named like the image)
assignImage(tex, a) == [tex EXCEPT ![a] = TRUE]

\* An image finishes loading and the host runs its onload handler.  An image
\* that fails, or never arrives, stays "loading": no handler is attached to
\* its error event.
onload ==
    /\ cur = "idle"
    /\ \E a \in Textures(sample) :
         /\ imgState[a] = "loading"
         /\ imgState' = [imgState EXCEPT ![a] = "loaded"]
         /\ texImage' = assignImage(texImage, a)
         /\ loadPhase' = [loadPhase EXCEPT ![a] = Phase]
    /\ UNCHANGED <<sample, cur, pc, innerWidth, innerHeight, canvasW, canvasH,
                   aspect, resizeListener, pending, frames, renders, tArg, uTime,
                   sceneRotY, meshes, mesh, loadState, fetches, light, thrown,
                   drawn>>

\* loadModel resumes after await fetch(...): it calls json() on the response
\* and awaits again.
fetchFulfilled ==
    /\ cur = "idle" /\ loadState = "fetching"
    /\ loadState' = "parsing"
    /\ UNCHANGED <<sample, cur, pc, innerWidth, innerHeight, canvasW, canvasH,
                   aspect, resizeListener, pending, frames, renders, tArg, uTime,
                   sceneRotY, meshes, mesh, fetches, imgState, texImage, light,
                   thrown, loadPhase, drawn>>

\* A rejection handled by issuing the fetch once more.
rejectedRetry ==
    /\ loadState' = IF fetches < 2 THEN "fetching" ELSE "failed"
    /\ fetches' = IF fetches < 2 THEN fetches + 1 ELSE fetches
    /\ UNCHANGED mesh

\* What loadModel does when an awaited promise rejects: nothing catches the
\* rejection, so the function ends there.
rejected ==
    /\ loadState' = "failed"
    /\ UNCHANGED <<fetches, mesh>>

\* The fetch fails, or the body is not JSON.
loadRejected ==
    /\ cur = "idle" /\ loadState \in {"fetching", "parsing"}
    /\ rejected
    /\ UNCHANGED <<sample, cur, pc, innerWidth, innerHeight, canvasW, canvasH,
                   aspect, resizeListener, pending, frames, renders, tArg, uTime,
                   sceneRotY, meshes, imgState, texImage, light, thrown,
                   loadPhase, drawn>>

\* mesh = new Mesh(gl, {geometry, program}); mesh.setParent(scene);
attachMesh == [defined |-> TRUE, rotY |-> 0, parent |-> "scene"]

\* loadModel resumes after await (...).json() and runs to its end.
jsonFulfilled ==
    /\ cur = "idle" /\ loadState = "parsing"
    /\ loadState' = "done"
    /\ mesh' = attachMesh
    /\ loadPhase' = [loadPhase EXCEPT !["model"] = Phase]
    /\ UNCHANGED <<sample, cur, pc, innerWidth, innerHeight, canvasW, canvasH,
                   aspect, resizeListener, pending, frames, renders, tArg, uTime,
                   sceneRotY, meshes, fetches, imgState, texImage, light, thrown,
                   drawn>>

\* -------------------------------------------------------------- mousemove

\* "lighting": the listener puts the light at the pointer, measured from the
\* middle of the window: [e.x - innerWidth / 2, -(e.y - innerHeight / 2), 40].
mousemove ==
    /\ cur = "idle" /\ sample = "lighting"
    /\ \E x \in 0 .. innerWidth, y \in 0 .. innerHeight :
         light' = <<2 * x - innerWidth, -(2 * y - innerHeight), 2 * 40>>
    /\ UNCHANGED <<sample, cur, pc, innerWidth, innerHeight, canvasW, canvasH,
                   aspect, resizeListener, pending, frames, renders, tArg, uTime,
                   sceneRotY, meshes, mesh, loadState, fetches, imgState,
                   texImage, thrown, loadPhase, drawn>>

\* ------------------------------------------------------------------- Next

Next ==
    \/ setupResize
    \/ setupIndexed
    \/ setupSort
    \/ setupInstancing
    \/ setupLighting
    \/ setupRaf
    \/ frameBegin
    \/ updateRaf
    \/ updateState
    \/ updateRender
    \/ windowResize
    \/ onload
    \/ fetchFulfilled
    \/ loadRejected
    \/ jsonFulfilled
    \/ mousemove

Spec == Init /\ [][Next]_vars

\* The steps of the liveness specification: every step but the mousemove
\* listener of "lighting", which writes the light uniform alone, a value no
\* statement of a sample reads back; the pointer's positions would only
\* multiply the behaviours to search.
LiveNext ==
    \/ setupResize
    \/ setupIndexed
    \/ setupSort
    \/ setupInstancing
    \/ setupLighting
    \/ setupRaf
    \/ frameBegin
    \/ updateRaf
    \/ updateState
    \/ updateRender
    \/ windowResize
    \/ onload
    \/ fetchFulfilled
    \/ loadRejected
    \/ jsonFulfilled

\* The fairness the host guarantees: a script or a handler that has started
\* runs to its end, and a pending frame callback is run at a later display
\* refresh (every other handler starts and ends with the stack empty, so a
\* pending callback stays runnable until it is run).
LiveSpec ==
    /\ Init /\ [][LiveNext]_vars
    /\ WF_vars(setupResize)
    /\ WF_vars(setupIndexed \/ setupSort \/ setupInstancing \/ setupLighting)
    /\ WF_vars(setupRaf)
    /\ WF_vars(frameBegin)
    /\ WF_vars(update)

\* ----------------------------------------------------------------- claims

\* C1: once resize() has completed, in every sample and for every viewport
\* size, the camera's aspect is the drawing-buffer width divided by the
\* drawing-buffer height, exactly, and the buffer is the viewport scaled by
\* the renderer's device pixel ratio.
C1_AspectIsBufferRatio ==
    pc # "resize" =>
        /\ aspect = Div(canvasW, canvasH)
        /\ canvasW = innerWidth * Dpr(sample)
        /\ canvasH = innerHeight * Dpr(sample)

\* A resize has completed on a renderer with dpr 2 and a buffer that is not
\* square.
C1_Witness ==
    /\ cur = "idle" /\ frames > 0 /\ Dpr(sample) = 2
    /\ innerWidth = 1 /\ innerHeight = 2
    /\ canvasW = 2 /\ canvasH = 4 /\ aspect = <<1, 2>>

\* C2: after N invocations of update exactly N render requests have been
\* issued; while an invocation is running, its own request is the only one
\* outstanding.
C2_OneRenderPerFrame ==
    /\ cur # "update" => renders = frames
    /\ cur = "update" => renders = frames - 1

\* Two frames have completed in "instancing" while the model was still
\* loading, with an image load in between.
C2_Witness ==
    /\ sample = "instancing" /\ cur = "idle" /\ frames = 2 /\ renders = 2
    /\ ~mesh.defined /\ loadPhase["texture"] = "old"

\* C4: in "instancing", the statements of update between its first and its
\* last leave an unset mesh untouched without throwing, turn a set mesh by
\* -0.005, store the frame's time in uTime and go on to the render request;
\* no other step changes the rotation of a mesh that is set.
C4_GuardedMeshUpdate ==
    [][sample = "instancing" =>
        /\ (cur = "update" /\ pc = "state") =>
              /\ ~mesh.defined => mesh' = mesh
              /\ mesh.defined => mesh' = [mesh EXCEPT !.rotY = @ - 5]
              /\ uTime' = tArg
              /\ ~thrown'
              /\ cur' = "update" /\ pc' = "render"
        /\ (~(cur = "update" /\ pc = "state") /\ mesh.defined) => mesh' = mesh
      ]_vars

\* A frame ran before the model loaded and another after: the mesh has been
\* turned once in two frames.
C4_Witness ==
    /\ sample = "instancing" /\ frames = 2 /\ renders = 2
    /\ mesh.defined /\ mesh.rotY = -5 /\ ~thrown

\* C5: an asset whose load handler ran after frame callbacks had begun is
\* drawn by every render request issued after the handler, and the handler
\* registers no frame callback: one callback is pending between frames.
C5_LateAssetDrawnNextFrame ==
    \A a \in Assets :
        /\ loadPhase[a] = "old" => a \in drawn
        /\ (loadPhase[a] \in {"fresh", "old"} /\ cur = "idle") => pending = 1

\* The model and the texture of "instancing" both arrived after the first
\* frame and a later frame has drawn them.
C5_Witness ==
    /\ sample = "instancing" /\ cur = "idle"
    /\ loadPhase["model"] = "old" /\ loadPhase["texture"] = "old"
    /\ drawn = {"model", "texture"} /\ pending = 1

\* C6: a resize with the size the viewport already has (the size of the
\* resize before it) changes nothing.
C6_ResizeIdempotent ==
    [][(windowResize /\ innerWidth' = innerWidth /\ innerHeight' = innerHeight)
          => UNCHANGED vars]_vars

\* The state a resize leaves, from which a second one with the same size can
\* follow: a 2 x 1 viewport on a renderer with dpr 2, after the first frame.
C6_Witness ==
    /\ cur = "idle" /\ frames = 1 /\ Dpr(sample) = 2
    /\ innerWidth = 2 /\ innerHeight = 1 /\ canvasW = 4 /\ canvasH = 2
    /\ aspect = <<2, 1>>

\* C7: while an invocation of update is running, the next step is its own:
\* it keeps the stack or ends with its render request, no other invocation
\* begins and no other handler's state changes.
C7_UpdateRunsToCompletion ==
    [][cur = "update" =>
        /\ cur' = "update" \/ (cur' = "idle" /\ renders' = renders + 1)
        /\ frames' = frames
        /\ UNCHANGED <<innerWidth, innerHeight, canvasW, canvasH, aspect,
                       imgState, texImage, loadState, fetches, light>>
      ]_vars

\* An invocation of update is between its state change and its render
\* request while loads are still outstanding.
C7_Witness ==
    /\ cur = "update" /\ pc = "render" /\ frames = 2
    /\ sample = "lighting" /\ imgState["colMap"] = "loading"

\* C8: in "instancing", while the model load is outstanding or has failed,
\* mesh is unset and not in the scene, the fetch was issued once, a failed
\* load stays failed, and the loop goes on: one callback pending between
\* frames.
C8_FailedLoadStaysAbsent ==
    /\ []((sample = "instancing"
            /\ loadState \in {"fetching", "parsing", "failed"}) =>
              /\ ~mesh.defined
              /\ mesh.parent = "none"
              /\ "model" \notin drawn
              /\ fetches = 1
              /\ cur = "idle" => (pending = 1 /\ renders = frames))
    /\ [][loadState = "failed" =>
            loadState' = "failed" /\ fetches' = fetches /\ mesh' = mesh]_vars

\* The load has failed and two frames have been rendered since without it.
C8_Witness ==
    /\ sample = "instancing" /\ loadState = "failed" /\ ~mesh.defined
    /\ frames = 2 /\ renders = 2 /\ pending = 1 /\ drawn = {}

\* C9: every render request is issued with a camera aspect that has been set
\* and that is the ratio of the drawing buffer as it is then; the listener
\* and the first resize() precede the first frame callback.
C9_RenderWithCurrentAspect ==
    [][renders' = renders + 1 =>
        /\ aspect # NoAspect
        /\ aspect = Div(canvasW, canvasH)
        /\ resizeListener
      ]_vars

\* A frame has been rendered after the viewport changed its shape between
\* two frames.
C9_Witness ==
    /\ cur = "idle" /\ renders = 2 /\ sample = "indexed"
    /\ canvasW = 2 /\ canvasH = 1 /\ aspect = <<2, 1>>

\* C10: in "sort", every mesh is created with position.y in [-3, 3); no step
\* changes a mesh's position.y or speed; the statements of update add 0.05 to
\* rotation.y and rotation.z of every mesh and no other step changes them.
C10_PositionNeverMoves ==
    [][sample = "sort" =>
        /\ \A i \in DOMAIN meshes' :
              /\ meshes'[i].posY >= -3 * RandomSteps
              /\ meshes'[i].posY < 3 * RandomSteps
        /\ meshes # <<>> =>
              /\ DOMAIN meshes' = DOMAIN meshes
              /\ \A i \in DOMAIN meshes :
                    /\ meshes'[i].posY = meshes[i].posY
                    /\ meshes'[i].speed = meshes[i].speed
                    /\ meshes'[i].parent = meshes[i].parent
                    /\ IF cur = "update" /\ pc = "state"
                       THEN /\ meshes'[i].rotY = meshes[i].rotY + 5 * RandomSteps
                            /\ meshes'[i].rotZ = meshes[i].rotZ + 5 * RandomSteps
                       ELSE /\ meshes'[i].rotY = meshes[i].rotY
                            /\ meshes'[i].rotZ = meshes[i].rotZ
      ]_vars

\* Two frames have run over a mesh created at position.y = -3, the least
\* value: it is still there and has turned by 0.1.
C10_Witness ==
    /\ sample = "sort" /\ cur = "idle" /\ frames = 2 /\ renders = 2
    /\ \E i \in DOMAIN meshes :
          /\ meshes[i].posY = -3 * RandomSteps
          /\ meshes[i].rotY = -314 * RandomSteps + 10 * RandomSteps

\* C3: the setup registers one frame callback and each invocation of update
\* one successor: between frames exactly one is pending, never two, only the
\* host's running a callback takes one away, and while the host delivers
\* display refreshes the render requests go on: their count reaches every
\* number of frames the host is let to deliver.
C3_LoopNeverStops ==
    /\ [](cur = "idle" => pending = 1)
    /\ [](pending \in {0, 1})
    /\ [][pending' < pending => (cur = "idle" /\ cur' = "update")]_vars
    /\ <>(renders = MaxFrames)

\* The loop has run to the last frame the bound allows and a callback is
\* still pending.
C3_Witness ==
    /\ cur = "idle" /\ frames = MaxFrames /\ renders = MaxFrames /\ pending = 1

====
